---- MODULE Spec2Model ----
(***************************************************************************)
(* A model of team_jdkkb's backend:                                        *)
(*   backend/main.py      - the ESP32-CAM polling loop: multi-scale        *)
(*                          template matching and debounced counting;      *)
(*   backend/optimizer.py - the Flask handlers /optimize and               *)
(*                          /calculate-manual.                             *)
(*                                                                         *)
(* Units.  Times are integers in milliseconds (time.time() is in seconds;  *)
(* Ms converts).  Correlation scores are integers in hundredths, so the    *)
(* THRESHOLD 0.65 is 65.  Scale factors are integers in hundredths, so     *)
(* np.linspace(0.5, 1.5, 5) is 50, 75, 100, 125, 150.  Real-valued results *)
(* of the emission arithmetic are exact fractions <<numerator,             *)
(* denominator>> in lowest terms; distances in degrees are fixed-point     *)
(* with three decimals (the integer square root of a million times the     *)
(* squared distance).                                                      *)
(***************************************************************************)
EXTENDS Integers, Sequences, FiniteSets, TLC

VARIABLES
    \* backend/main.py, module globals and the loop's locals
    template_a, template_b,     \* load_and_prep('objectA.png'/'objectB.png')
    count_a, count_b,
    last_seen_a, last_seen_b,
    gray,                       \* the grayscale frame of the current cycle
    current_time,               \* time.time() as read in the current cycle
    match_a, match_b,
    pc,                         \* position of the loop
    clock,                      \* the wall clock, what time.time() returns
    key,                        \* what cv2.waitKey(1) & 0xFF last returned
    \* backend/optimizer.py, optimize_route
    locations, unvisited, current, path, logs, stats, rpc, status,
    \* backend/optimizer.py, calculate_manual
    payload, manual

loopVars == <<template_a, template_b, count_a, count_b, last_seen_a, last_seen_b, gray, current_time, match_a, match_b, pc, clock, key>>
routeVars == <<locations, unvisited, current, path, logs, stats, rpc, status>>
manualVars == <<payload, manual>>
vars == <<loopVars, routeVars, manualVars>>

\* Python's None (an absent template, an unset local, find_match's "no match").
None == [none |-> TRUE]

\* Seconds to the model's milliseconds.
Ms(s) == s * 1000

-----------------------------------------------------------------------------
(* Bounds of the model. *)

\* The loop is followed until the wall clock passes this many seconds.
MaxClock == 6

-----------------------------------------------------------------------------
(* backend/main.py: configuration *)

THRESHOLD == 65
COOLDOWN_TIME == 2

-----------------------------------------------------------------------------
(* backend/main.py: load_and_prep *)

\* cv2's rounding of a computed size, cvRound: n/d to the nearest integer,
\* halves to the even neighbour.
CvRound(n, d) ==
    LET q == n \div d
        r == n % d
    IN  IF 2 * r < d THEN q
        ELSE IF 2 * r > d THEN q + 1
        ELSE IF q % 2 = 0 THEN q ELSE q + 1

\* The image files that may lie at a template's path: none at all (imread
\* returns None), or a picture of the given size.  "id" stands for the
\* picture's content.
Pictures(id) ==
    { [h |-> 40, w |-> 40, id |-> id],
      [h |-> 100, w |-> 400, id |-> id],
      [h |-> 900, w |-> 300, id |-> id] }

load_and_prep(file) ==
    IF file = None THEN None
    ELSE IF file.w > 200
         THEN [h |-> CvRound(file.h * 200, file.w), w |-> CvRound(file.w * 200, file.w), id |-> file.id]
         ELSE file

-----------------------------------------------------------------------------
(* backend/main.py: find_match *)

\* np.linspace(start, stop, num), in hundredths.
Linspace(start, stop, num) ==
    [i \in 1..num |-> start + ((i - 1) * (stop - start)) \div (num - 1)]

Scales == Linspace(50, 150, 5)

\* cv2.resize(img, (0,0), fx=scale, fy=scale): both sides scaled and rounded;
\* the content is the same scene, seen at that zoom.
Resize(img, scale) ==
    [h |-> CvRound(img.h * scale, 100), w |-> CvRound(img.w * scale, 100), scene |-> img.scene, zoom |-> (img.zoom * scale) \div 100]

\* cv2.matchTemplate(...TM_CCOEFF_NORMED) followed by cv2.minMaxLoc: the best
\* score and its location.  What they are is a property of the scene, of the
\* template's content and of the zoom; the scene records it.
MatchTemplate(resized, template) == resized.scene[template.id][resized.zoom]

RECURSIVE find_match_last_tie_from(_, _, _, _)
find_match_last_tie_from(frame_gray, template, i, found) ==
    IF i > Len(Scales) THEN found
    ELSE LET scale == Scales[i]
             resized == Resize(frame_gray, scale)
         IN  IF resized.h < template.h \/ resized.w < template.w
             THEN find_match_last_tie_from(frame_gray, template, i + 1, found)
             ELSE LET res == MatchTemplate(resized, template)
                  IN  IF found = None \/ res.val >= found.val
                      THEN find_match_last_tie_from(frame_gray, template, i + 1, [val |-> res.val, loc |-> res.loc, scale |-> scale])
                      ELSE find_match_last_tie_from(frame_gray, template, i + 1, found)

\* lines 35-50: the loop over the scales, from the i-th on, `found` so far
RECURSIVE find_match_from(_, _, _, _)
find_match_from(frame_gray, template, i, found) ==
    IF i > Len(Scales) THEN found
    ELSE LET scale == Scales[i]
             resized == Resize(frame_gray, scale)
         IN  IF resized.h < template.h \/ resized.w < template.w
             THEN find_match_from(frame_gray, template, i + 1, found)
             ELSE LET res == MatchTemplate(resized, template)
                  IN  IF found = None \/ res.val > found.val
                      THEN find_match_from(frame_gray, template, i + 1, [val |-> res.val, loc |-> res.loc, scale |-> scale])
                      ELSE find_match_from(frame_gray, template, i + 1, found)

\* "t_h, t_w = template.shape[:2]" raises AttributeError on a None template.
Raised == [raised |-> "AttributeError"]

find_match(frame_gray, template) ==
    IF template = None THEN Raised
    ELSE find_match_from(frame_gray, template, 1, None)

-----------------------------------------------------------------------------
(* backend/main.py: the frames the camera may deliver *)

ScaleSet == {Scales[i] : i \in DOMAIN Scales}

\* A scene: for each template content and each zoom, the best correlation
\* score and where it lies.  sa and sb list the scores by scale, in the order
\* of Scales.
SceneOf(sa, sb) ==
    [a |-> [z \in ScaleSet |-> LET i == CHOOSE j \in DOMAIN Scales : Scales[j] = z IN [val |-> sa[i], loc |-> <<i, 2 * i>>]],
     b |-> [z \in ScaleSet |-> LET i == CHOOSE j \in DOMAIN Scales : Scales[j] = z IN [val |-> sb[i], loc |-> <<3 * i, i>>]]]

\* cv2.imdecode of a QVGA snapshot, then cv2.cvtColor(frame, COLOR_BGR2GRAY).
Image(h, w, scene) == [h |-> h, w |-> w, scene |-> scene, zoom |-> 100]

LoopScenes ==
    { SceneOf(<<30, 30, 30, 30, 30>>, <<30, 30, 30, 30, 30>>),
      SceneOf(<<90, 70, 66, 70, 40>>, <<30, 64, 30, 30, 30>>),
      SceneOf(<<65, 65, 65, 65, 65>>, <<80, 80, 95, 80, 80>>),
      SceneOf(<<70, 90, 90, 70, 70>>, <<70, 70, 70, 70, 99>>) }

\* What one fetch-and-decode may yield: requests.get raises (timeout, refused
\* connection), the payload does not decode (imdecode returns None and
\* cvtColor raises), or a frame.
Responses ==
    { [kind |-> "timeout"], [kind |-> "undecodable"] }
    \cup { [kind |-> "image", frame |-> Image(240, 320, sc)] : sc \in LoopScenes }

\* The time that may pass between two cycles (network, matching, display).
Deltas == {0, 500, 2000}

\* What cv2.waitKey(1) may return: -1 (no key), 'q', 'a', 'q' with a
\* modifier bit set above the low byte.
KeyCodes == {-1, 113, 97, 113 + 65536}

-----------------------------------------------------------------------------
(* backend/main.py: the debounce rule and the main loop *)

\* "if match and match[0] > THRESHOLD: if current_time - last_seen > COOLDOWN_TIME"
QualifiesAtThreshold(match) == match # None /\ match.val >= THRESHOLD

Qualifies(match) == match # None /\ match.val > THRESHOLD

CooledDownInclusive(now, last_seen) == now - last_seen >= Ms(COOLDOWN_TIME)

CooledDown(now, last_seen) == now - last_seen > Ms(COOLDOWN_TIME)

\* lines 57-62: fetch, decode, grayscale, read the clock
Fetch(responses) ==
    /\ pc = "fetch"
    /\ \E r \in responses :
         IF r.kind = "image"
         THEN /\ gray' = r.frame
              /\ current_time' = clock
              /\ pc' = "checkA"
         ELSE /\ pc' = "except"
              /\ UNCHANGED <<gray, current_time>>
    /\ UNCHANGED <<template_a, template_b, count_a, count_b, last_seen_a, last_seen_b, match_a, match_b, clock, key>>
    /\ UNCHANGED <<routeVars, manualVars>>

\* lines 64-73: object A
CheckA ==
    /\ pc = "checkA"
    /\ LET found == find_match(gray, template_a)
       IN  IF found = Raised
           THEN /\ pc' = "except"
                /\ UNCHANGED <<match_a, count_a, last_seen_a>>
           ELSE /\ match_a' = found
                /\ IF Qualifies(found) /\ CooledDown(current_time, last_seen_a)
                   THEN /\ count_a' = count_a + 1
                        /\ last_seen_a' = current_time
                   ELSE UNCHANGED <<count_a, last_seen_a>>
                /\ pc' = "checkB"
    /\ UNCHANGED <<template_a, template_b, count_b, last_seen_b, gray, current_time, match_b, clock, key>>
    /\ UNCHANGED <<routeVars, manualVars>>

\* lines 75-84: object B
CheckB ==
    /\ pc = "checkB"
    /\ LET found == find_match(gray, template_b)
       IN  IF found = Raised
           THEN /\ pc' = "except"
                /\ UNCHANGED <<match_b, count_b, last_seen_b>>
           ELSE /\ match_b' = found
                /\ IF Qualifies(found) /\ CooledDown(current_time, last_seen_b)
                   THEN /\ count_b' = count_b + 1
                        /\ last_seen_b' = current_time
                   ELSE UNCHANGED <<count_b, last_seen_b>>
                /\ pc' = "overlay"
    /\ UNCHANGED <<template_a, template_b, count_a, last_seen_a, gray, current_time, match_a, clock, key>>
    /\ UNCHANGED <<routeVars, manualVars>>

\* lines 86-90: putText, imshow
Overlay ==
    /\ pc = "overlay"
    /\ pc' = "waitkey"
    /\ UNCHANGED <<template_a, template_b, count_a, count_b, last_seen_a, last_seen_b, gray, current_time, match_a, match_b, clock, key>>
    /\ UNCHANGED <<routeVars, manualVars>>

ExceptThenRetry ==
    /\ pc = "except"
    /\ clock' = clock + Ms(2)
    /\ pc' = "fetch"
    /\ UNCHANGED <<template_a, template_b, count_a, count_b, last_seen_a, last_seen_b, gray, current_time, match_a, match_b, key>>
    /\ UNCHANGED <<routeVars, manualVars>>

\* lines 92-94: except Exception: print, time.sleep(2)
Except ==
    /\ pc = "except"
    /\ clock' = clock + Ms(2)
    /\ pc' = "waitkey"
    /\ UNCHANGED <<template_a, template_b, count_a, count_b, last_seen_a, last_seen_b, gray, current_time, match_a, match_b, key>>
    /\ UNCHANGED <<routeVars, manualVars>>

\* lines 96-97: if cv2.waitKey(1) & 0xFF == ord('q'): break.  Otherwise the
\* next cycle starts, some time later; the model follows the loop up to
\* `limit` milliseconds on the clock.
WaitKey(codes, deltas, limit) ==
    /\ pc = "waitkey"
    /\ \E code \in codes :
         /\ key' = code % 256
         /\ IF key' = 113
            THEN /\ pc' = "done"
                 /\ clock' = clock
            ELSE /\ pc' = "fetch"
                 /\ \E d \in deltas : clock + d <= limit /\ clock' = clock + d
    /\ UNCHANGED <<template_a, template_b, count_a, count_b, last_seen_a, last_seen_b, gray, current_time, match_a, match_b>>
    /\ UNCHANGED <<routeVars, manualVars>>

-----------------------------------------------------------------------------
(* Python floats, as exact fractions <<numerator, denominator>> in lowest  *)
(* terms with a positive denominator                                       *)

Abs(n) == IF n < 0 THEN -n ELSE n

RECURSIVE GCD(_, _)
GCD(a, b) == IF b = 0 THEN a ELSE GCD(b, a % b)

Frac(n, d) ==
    LET g == GCD(Abs(n), Abs(d))
        sgn == IF d < 0 THEN -1 ELSE 1
    IN  <<sgn * (n \div g), sgn * (d \div g)>>

LCM(a, b) == (a \div GCD(a, b)) * b

FracAdd(x, y) == LET l == LCM(x[2], y[2]) IN Frac(x[1] * (l \div x[2]) + y[1] * (l \div y[2]), l)
FracSub(x, y) == LET l == LCM(x[2], y[2]) IN Frac(x[1] * (l \div x[2]) - y[1] * (l \div y[2]), l)
FracMul(x, y) == LET a == Frac(x[1], y[2]) b == Frac(y[1], x[2]) IN Frac(a[1] * b[1], a[2] * b[2])
FracDiv(x, y) == FracMul(x, Frac(y[2], y[1]))
FracLess(x, y) == LET l == LCM(x[2], y[2]) IN x[1] * (l \div x[2]) < y[1] * (l \div y[2])
\* Python's max(x, y): the first argument unless the second is greater
FracMax(x, y) == IF FracLess(x, y) THEN y ELSE x

\* math.sqrt of a whole number, to three decimals: the largest r with
\* r*r <= 1000000 * n, found by bisection between lo and hi.
RECURSIVE IsqrtBetween(_, _, _)
IsqrtBetween(n, lo, hi) ==
    IF lo >= hi THEN lo
    ELSE LET mid == (lo + hi + 1) \div 2
         IN  IF mid * mid <= n THEN IsqrtBetween(n, mid, hi) ELSE IsqrtBetween(n, lo, mid - 1)

\* The roots of the squared distances that occur, computed once.
SqrtTable == [n \in 0..200 |-> Frac(IsqrtBetween(n * 1000000, 0, 46340), 1000)]

Sqrt(n) == IF n \in DOMAIN SqrtTable THEN SqrtTable[n] ELSE Frac(IsqrtBetween(n * 1000000, 0, 46340), 1000)

-----------------------------------------------------------------------------
(* backend/optimizer.py: emission factors, get_dist, calculate_emissions *)

EMISSION_FACTORS == [road |-> Frac(80, 1000), rail |-> Frac(20, 1000), air |-> Frac(500, 1000)]

get_dist_lat_only(p1, p2) == Sqrt((p1.lat - p2.lat) * (p1.lat - p2.lat))

get_dist(p1, p2) ==
    Sqrt((p1.lat - p2.lat) * (p1.lat - p2.lat) + (p1.lng - p2.lng) * (p1.lng - p2.lng))

FactorOfDefaultAir(mode) ==
    IF mode \in DOMAIN EMISSION_FACTORS THEN EMISSION_FACTORS[mode] ELSE EMISSION_FACTORS["air"]

\* EMISSION_FACTORS.get(mode, EMISSION_FACTORS['road'])
FactorOf(mode) ==
    IF mode \in DOMAIN EMISSION_FACTORS THEN EMISSION_FACTORS[mode] ELSE EMISSION_FACTORS["road"]

calculate_emissions(dist_km, weight_kg, mode) ==
    LET factor == FactorOf(mode)
        weight_tons == FracDiv(weight_kg, Frac(1000, 1))
    IN  FracMul(FracMul(dist_km, weight_tons), factor)

-----------------------------------------------------------------------------
(* backend/optimizer.py: optimize_route *)

\* Bounds: requests carry from none to MaxLocs locations, on the grid of
\* whole degrees lat 0..1, lng 0..MaxLng.
MaxLocs == 4
MaxLng == 2

GridPoints == {[lat |-> x, lng |-> y] : x \in 0..1, y \in 0..MaxLng}

RouteRequests == UNION {[1..n -> GridPoints] : n \in 0..MaxLocs}

\* min(unvisited, key=lambda node: get_dist(current, node)): the first
\* element whose key no other element's key is below.
NearestIndex(cur, unv) ==
    CHOOSE i \in 1..Len(unv) :
        /\ \A j \in 1..Len(unv) : ~FracLess(get_dist(cur, unv[j]), get_dist(cur, unv[i]))
        /\ \A j \in 1..(i - 1) : FracLess(get_dist(cur, unv[i]), get_dist(cur, unv[j]))

\* list.remove(x): the list without its first element equal to x
Remove(seq, x) ==
    LET k == CHOOSE i \in 1..Len(seq) : seq[i] = x /\ \A j \in 1..(i - 1) : seq[j] # x
    IN  SubSeq(seq, 1, k - 1) \o SubSeq(seq, k + 1, Len(seq))

\* lines 64-66: total_deg, the sum of the hops of the path
RECURSIVE TotalDeg(_, _)
TotalDeg(p, i) ==
    IF i >= Len(p) THEN Frac(0, 1)
    ELSE FracAdd(get_dist(p[i], p[i + 1]), TotalDeg(p, i + 1))

RouteStatsAgainstOptimized(p) ==
    LET total_km == FracMul(TotalDeg(p, 1), Frac(111, 1))
        default_weight_kg == Frac(1000, 1)
        optimized_emission == calculate_emissions(total_km, default_weight_kg, "road")
        baseline_km == FracMul(total_km, Frac(145, 100))
        baseline_emission == calculate_emissions(baseline_km, default_weight_kg, "road")
        saved_emission == FracMax(Frac(0, 1), FracSub(baseline_emission, optimized_emission))
        reduction_pct == IF FracLess(Frac(0, 1), baseline_emission)
                         THEN FracMul(FracDiv(saved_emission, optimized_emission), Frac(100, 1))
                         ELSE Frac(0, 1)
    IN  [total_distance_km |-> total_km, optimized |-> optimized_emission, baseline |-> baseline_emission, saved |-> saved_emission, percent |-> reduction_pct]

\* lines 63-85: the statistics of a finished path
RouteStats(p) ==
    LET total_km == FracMul(TotalDeg(p, 1), Frac(111, 1))
        default_weight_kg == Frac(1000, 1)
        optimized_emission == calculate_emissions(total_km, default_weight_kg, "road")
        baseline_km == FracMul(total_km, Frac(145, 100))
        baseline_emission == calculate_emissions(baseline_km, default_weight_kg, "road")
        saved_emission == FracMax(Frac(0, 1), FracSub(baseline_emission, optimized_emission))
        reduction_pct == IF FracLess(Frac(0, 1), baseline_emission)
                         THEN FracMul(FracDiv(saved_emission, baseline_emission), Frac(100, 1))
                         ELSE Frac(0, 1)
    IN  [total_distance_km |-> total_km, optimized |-> optimized_emission, baseline |-> baseline_emission, saved |-> saved_emission, percent |-> reduction_pct]

\* a POST /optimize arrives: data = request.json; locations = data.get('locations', [])
RouteRequest ==
    /\ rpc = "idle"
    /\ locations' \in RouteRequests
    /\ unvisited' = <<>> /\ current' = None /\ path' = <<>> /\ logs' = <<>>
    /\ stats' = None /\ status' = 0
    /\ rpc' = "start"
    /\ UNCHANGED <<loopVars, manualVars>>

\* lines 41-50: the length check, then unvisited = locations[:],
\* current = unvisited.pop(0), path = [current], the first log line
RouteStart ==
    /\ rpc = "start"
    /\ IF Len(locations) < 2
       THEN /\ status' = 400
            /\ rpc' = "responded"
            /\ UNCHANGED <<unvisited, current, path, logs>>
       ELSE /\ unvisited' = Tail(locations)
            /\ current' = Head(locations)
            /\ path' = <<Head(locations)>>
            /\ logs' = <<[text |-> "Optimization Started..."]>>
            /\ rpc' = "loop"
            /\ UNCHANGED status
    /\ UNCHANGED <<locations, stats>>
    /\ UNCHANGED <<loopVars, manualVars>>

\* lines 53-61: one turn of "while unvisited"
RoutePick ==
    /\ rpc = "loop"
    /\ unvisited # <<>>
    /\ LET nearest == unvisited[NearestIndex(current, unvisited)]
       IN  /\ path' = Append(path, nearest)
           /\ logs' = Append(logs, [text |-> "Connected to nearest node at", lat |-> nearest.lat])
           /\ current' = nearest
           /\ unvisited' = Remove(unvisited, nearest)
    /\ UNCHANGED <<locations, stats, rpc, status>>
    /\ UNCHANGED <<loopVars, manualVars>>

\* lines 63-91: the loop has ended; statistics and the 200 response
RouteFinish ==
    /\ rpc = "loop"
    /\ unvisited = <<>>
    /\ stats' = RouteStats(path)
    /\ status' = 200
    /\ rpc' = "responded"
    /\ UNCHANGED <<locations, unvisited, current, path, logs>>
    /\ UNCHANGED <<loopVars, manualVars>>

\* the response is sent and the handler returns: its locals are gone
RouteReturn ==
    /\ rpc = "responded"
    /\ locations' = <<>> /\ unvisited' = <<>> /\ current' = None /\ path' = <<>>
    /\ logs' = <<>> /\ stats' = None /\ status' = 0
    /\ rpc' = "idle"
    /\ UNCHANGED <<loopVars, manualVars>>

-----------------------------------------------------------------------------
(* backend/optimizer.py: calculate_manual *)

\* JSON values; Missing marks a key the object does not have.
Num(n) == [t |-> "num", v |-> n]
Str(s) == [t |-> "str", v |-> s]
Null == [t |-> "null"]
Missing == [t |-> "missing"]

\* The strings float() accepts, among those the requests carry, and their values.
Numerals == [s \in {"12", "2.5"} |-> IF s = "12" THEN Frac(12, 1) ELSE Frac(5, 2)]

\* float(x): a number as it is, a numeral string parsed, ValueError for any
\* other string, TypeError for None.
PyFloat(x) ==
    IF x.t = "num" THEN [ok |-> TRUE, v |-> Frac(x.v, 1)]
    ELSE IF x.t = "str"
         THEN IF x.v \in DOMAIN Numerals THEN [ok |-> TRUE, v |-> Numerals[x.v]] ELSE [ok |-> FALSE, error |-> "ValueError"]
         ELSE [ok |-> FALSE, error |-> "TypeError"]

\* dict.get(key, default)
Get(obj, k, default) == IF obj[k] = Missing THEN default ELSE obj[k]

\* request.json or {}
EmptyObject == [distance |-> Missing, weight |-> Missing, mode |-> Missing]

OrEmpty(body) == IF body = Null THEN EmptyObject ELSE body

\* A value as a key of EMISSION_FACTORS: a string is itself, anything else
\* (None) is a key the dict does not have.
KeyOf(x) == IF x.t = "str" THEN x.v ELSE "None"

\* lines 95-105; an exception that escapes the handler is Flask's 500
calculate_manual(body) ==
    LET pl == OrEmpty(body)
        distance == PyFloat(Get(pl, "distance", Num(0)))
        weight == PyFloat(Get(pl, "weight", Num(0)))
        mode == KeyOf(Get(pl, "mode", Str("road")))
    IN  IF ~distance.ok THEN [status |-> 500, error |-> distance.error]
        ELSE IF ~weight.ok THEN [status |-> 500, error |-> weight.error]
        ELSE LET emission_kg == calculate_emissions(distance.v, weight.v, mode)
                 baseline_kg == calculate_emissions(distance.v, weight.v, "air")
                 savings_kg == FracMax(Frac(0, 1), FracSub(baseline_kg, emission_kg))
             IN  [status |-> 200, emission_kg |-> emission_kg, baseline_kg |-> baseline_kg, savings_kg |-> savings_kg]

\* The request bodies: a JSON null, or an object whose fields are missing,
\* null, numbers or strings.
ManualBodies ==
    {Null} \cup
    [distance : {Missing, Null, Num(0), Num(100), Num(-5), Str("12"), Str("abc")},
     weight : {Missing, Null, Num(0), Num(1000), Num(500), Str("2.5"), Str("")},
     mode : {Missing, Null, Str("road"), Str("rail"), Str("air"), Str("unknown")}]

\* a POST /calculate-manual arrives
ManualRequest ==
    /\ payload = None
    /\ payload' \in ManualBodies
    /\ manual' = None
    /\ UNCHANGED <<loopVars, routeVars>>

\* the handler runs
ManualHandle ==
    /\ payload # None /\ manual = None
    /\ manual' = calculate_manual(payload)
    /\ UNCHANGED payload
    /\ UNCHANGED <<loopVars, routeVars>>

\* the response is sent and the handler returns
ManualReturn ==
    /\ manual # None
    /\ payload' = None /\ manual' = None
    /\ UNCHANGED <<loopVars, routeVars>>

-----------------------------------------------------------------------------
(* The three programs at rest *)

\* main.py at line 52: templates loaded, counters and timestamps zero, the
\* loop's locals not yet assigned.  The wall clock starts at `start`.
LoopInit(files_a, files_b, starts) ==
    /\ \E fa \in files_a : template_a = load_and_prep(fa)
    /\ \E fb \in files_b : template_b = load_and_prep(fb)
    /\ count_a = 0 /\ count_b = 0
    /\ last_seen_a = 0 /\ last_seen_b = 0
    /\ gray = None /\ current_time = 0
    /\ match_a = None /\ match_b = None
    /\ pc = "fetch"
    /\ clock \in starts
    /\ key = 255

\* optimizer.py with no /optimize request in progress
RouteIdle ==
    /\ locations = <<>> /\ unvisited = <<>> /\ current = None /\ path = <<>>
    /\ logs = <<>> /\ stats = None /\ rpc = "idle" /\ status = 0

\* optimizer.py with no /calculate-manual request in progress
ManualIdle == payload = None /\ manual = None

-----------------------------------------------------------------------------
(* Spec: the acquisition loop of backend/main.py *)

\* The clock at start-up: the epoch itself, or later.
StartTimes == {0, 3000}

Init ==
    /\ LoopInit({None} \cup Pictures("a"), {None} \cup Pictures("b"), StartTimes)
    /\ RouteIdle
    /\ ManualIdle

Next ==
    \/ Fetch(Responses)
    \/ CheckA
    \/ CheckB
    \/ Overlay
    \/ Except
    \/ WaitKey(KeyCodes, Deltas, Ms(MaxClock))

Spec == Init /\ [][Next]_vars

-----------------------------------------------------------------------------
(* SpecScenario: the loop fed one fixed qualifying frame every 0.5 s for   *)
(* 10 s (cycles at 0, 500, ..., 9500 ms), from the initial counter state.  *)

QualifyingResponses ==
    { r \in Responses :
        /\ r.kind = "image"
        /\ \A z \in ScaleSet : r.frame.scene.a[z].val > THRESHOLD /\ r.frame.scene.b[z].val > THRESHOLD }

\* The template files for which such a frame gives a match at all.
MatchablePictures(id) ==
    { f \in Pictures(id) : \E r \in QualifyingResponses : find_match(r.frame, load_and_prep(f)) # None }

ScenarioInit ==
    /\ LoopInit(MatchablePictures("a"), MatchablePictures("b"), {0})
    /\ RouteIdle
    /\ ManualIdle

ScenarioNext ==
    \/ Fetch(QualifyingResponses)
    \/ CheckA
    \/ CheckB
    \/ Overlay
    \/ WaitKey({-1}, {500}, 9500)

SpecScenario == ScenarioInit /\ [][ScenarioNext]_vars

-----------------------------------------------------------------------------
(* SpecMatch: find_match applied to one frame and one template.  The frame  *)
(* is any of three sizes showing any scene whose scores for content "a"     *)
(* are below, at or above THRESHOLD at each zoom; the template is any       *)
(* loaded picture.                                                          *)

ScoreSet == {50, 65, 80}

MatchFrames ==
    { Image(d[1], d[2], SceneOf(sa, <<30, 30, 30, 30, 30>>)) :
        d \in {<<240, 320>>, <<120, 160>>, <<30, 40>>}, sa \in [DOMAIN Scales -> ScoreSet] }

MatchInit ==
    /\ LoopInit(Pictures("a"), {None}, {0})
    /\ RouteIdle
    /\ ManualIdle

\* gray = cvtColor(frame); match_a = find_match(gray, template_a)
MatchStep ==
    /\ pc = "fetch"
    /\ \E f \in MatchFrames :
         /\ gray' = f
         /\ match_a' = find_match(f, template_a)
    /\ pc' = "matched"
    /\ UNCHANGED <<template_a, template_b, count_a, count_b, last_seen_a, last_seen_b, current_time, match_b, clock, key>>
    /\ UNCHANGED <<routeVars, manualVars>>

SpecMatch == MatchInit /\ [][MatchStep]_vars

\* The frame resized by z hundredths is lower or narrower than the template.
C6_Skipped(z) ==
    \/ CvRound(gray.h * z, 100) < template_a.h
    \/ CvRound(gray.w * z, 100) < template_a.w

\* C6: find_match returns none exactly when every scale is skipped (the
\* resized frame is lower or narrower than the template); otherwise it
\* returns the score, location and scale of a scale that is not skipped, no
\* other such scale scores higher, and none that scores the same is smaller.
C6_BestFirstScale ==
    pc = "matched" =>
        LET tried == {z \in {50, 75, 100, 125, 150} : ~C6_Skipped(z)}
            at(z) == gray.scene[template_a.id][z]
        IN  IF tried = {} THEN match_a = None
            ELSE /\ match_a # None
                 /\ match_a.scale \in tried
                 /\ match_a.val = at(match_a.scale).val
                 /\ match_a.loc = at(match_a.scale).loc
                 /\ \A z \in tried : at(z).val <= match_a.val
                 /\ \A z \in tried : at(z).val = match_a.val => z >= match_a.scale

\* C6's case: the smallest scale was skipped, and of the rest the first and
\* a later one tie for the best score; the first is returned.
C6_Witness ==
    /\ pc = "matched" /\ match_a # None
    /\ C6_Skipped(50) /\ ~C6_Skipped(75)
    /\ match_a.scale = 75
    /\ gray.scene[template_a.id][125].val = match_a.val

\* C6's other case: every scale is skipped and nothing is returned.
C6_WitnessNone == pc = "matched" /\ match_a = None /\ C6_Skipped(150)

-----------------------------------------------------------------------------
(* Claims about the acquisition loop *)

\* What one step may do to the counters (see C1).
C1_Step ==
    /\ count_a' >= count_a /\ count_b' >= count_b
    /\ count_a' # count_a =>
         /\ count_a' = count_a + 1
         /\ last_seen_a' = current_time
         /\ count_a > 0 => current_time - last_seen_a > Ms(COOLDOWN_TIME)
    /\ count_b' # count_b =>
         /\ count_b' = count_b + 1
         /\ last_seen_b' = current_time
         /\ count_b > 0 => current_time - last_seen_b > Ms(COOLDOWN_TIME)
    /\ count_a' = count_a => last_seen_a' = last_seen_a
    /\ count_b' = count_b => last_seen_b' = last_seen_b

\* C1: each count is non-negative and never decreases; a count moves by one
\* increment at a time, the increment's time is recorded in last_seen, which
\* nothing else changes, and an increment that follows an earlier one comes
\* more than COOLDOWN_TIME after it - so two increments of a label are always
\* more than COOLDOWN_TIME apart, whatever frames came in between.
C1_DebouncedCounts == [](count_a >= 0 /\ count_b >= 0) /\ [][C1_Step]_vars

\* C1's case: label A counted twice, and a further qualifying frame inside
\* the cooldown window of the second count was seen and not counted.
C1_Witness ==
    /\ pc = "checkB" /\ count_a = 2
    /\ match_a # None /\ match_a.val > THRESHOLD
    /\ current_time > last_seen_a /\ current_time - last_seen_a <= Ms(COOLDOWN_TIME)

C3_Step ==
    /\ pc = "checkA" =>
         /\ IF match_a' # None /\ match_a'.val > THRESHOLD /\ current_time - last_seen_a > Ms(COOLDOWN_TIME)
            THEN count_a' = count_a + 1 /\ last_seen_a' = current_time
            ELSE count_a' = count_a /\ last_seen_a' = last_seen_a
         /\ count_b' = count_b /\ last_seen_b' = last_seen_b
    /\ pc = "checkB" =>
         /\ IF match_b' # None /\ match_b'.val > THRESHOLD /\ current_time - last_seen_b > Ms(COOLDOWN_TIME)
            THEN count_b' = count_b + 1 /\ last_seen_b' = current_time
            ELSE count_b' = count_b /\ last_seen_b' = last_seen_b
         /\ count_a' = count_a /\ last_seen_a' = last_seen_a
    /\ pc \notin {"checkA", "checkB"} =>
         <<count_a, last_seen_a, count_b, last_seen_b>>' = <<count_a, last_seen_a, count_b, last_seen_b>>

\* C3: in the step for a label, that label's count goes up by one and its
\* last_seen becomes the cycle's time exactly when the match is present, its
\* score is above THRESHOLD and more than COOLDOWN_TIME has passed since
\* last_seen; otherwise both stay; the other label's pair stays; and no
\* other step of the loop touches any of the four.
C3_DebounceRule == [][C3_Step]_vars

\* C3's case: in one cycle A was counted, and B, though its score qualified,
\* was inside its cooldown window and was not.
C3_Witness ==
    /\ pc = "overlay"
    /\ count_a >= 1 /\ last_seen_a = current_time
    /\ match_b # None /\ match_b.val > THRESHOLD
    /\ count_b >= 1 /\ last_seen_b < current_time

\* C4: with exactly one template absent, that label's matching is skipped
\* and the cycle goes on to the other label and to the overlay, never to the
\* error path.
C4_MissingTemplateSkipped ==
    [][ /\ (pc = "checkA" /\ template_a = None /\ template_b # None) => pc' = "checkB"
        /\ (pc = "checkB" /\ template_b = None /\ template_a # None) => pc' = "overlay" ]_vars

\* How the loop's position may move in one step (see C5).
C5_Step ==
    /\ pc = "fetch" => pc' \in {"checkA", "except"}
    /\ pc = "except" => pc' = "waitkey" /\ clock' = clock + Ms(2)
    /\ pc = "waitkey" => \/ pc' = "done" /\ key' = 113
                         \/ pc' = "fetch" /\ key' # 113
    /\ pc' = "waitkey" => pc \in {"overlay", "except"}
    /\ pc' = "fetch" => pc = "waitkey"
    /\ pc' = "done" => pc = "waitkey"
    /\ pc # "done"

\* C5: the loop moves between fetching and the error state only: a failed
\* fetch leads to the error state; the error state sleeps 2 s and goes on to
\* the quit check; the quit check follows every cycle, ended in the overlay
\* or in the error state, and is the one way into the next fetch and the one
\* way out of the loop, which it takes exactly on 'q' - however many cycles
\* have failed.
C5_LoopShape == [](pc = "done" => key = 113) /\ [][C5_Step]_vars

\* C5's case: every cycle so far has failed, at least twice in a row, and
\* the loop is fetching again.
C5_Witness == pc = "fetch" /\ gray = None /\ clock >= 6000

-----------------------------------------------------------------------------
(* SpecRoute: the /optimize handler of backend/optimizer.py *)

LoopIdle == LoopInit({None}, {None}, {0})

RouteInit == LoopIdle /\ RouteIdle /\ ManualIdle

RouteNext ==
    \/ RouteRequest
    \/ RouteStart
    \/ RoutePick
    \/ RouteFinish
    \/ RouteReturn

SpecRoute == RouteInit /\ [][RouteNext]_vars

\* How often x occurs in the sequence s.
Occurrences(s, x) == Cardinality({i \in 1..Len(s) : s[i] = x})

\* The square of the Euclidean distance, in degrees.
SquaredDist(p, q) == (p.lat - q.lat) * (p.lat - q.lat) + (p.lng - q.lng) * (p.lng - q.lng)

\* The answer to an accepted request (see C7).
C7_Answer ==
    (rpc = "responded" /\ status = 200) =>
        /\ Len(locations) >= 2
        /\ Len(path) = Len(locations)
        /\ \A x \in GridPoints : Occurrences(path, x) = Occurrences(locations, x)
        /\ path[1] = locations[1]
        /\ \A i \in 2..Len(path) : \A j \in i..Len(path) :
             SquaredDist(path[i - 1], path[i]) <= SquaredDist(path[i - 1], path[j])
        /\ Len(logs) - 1 = Len(locations) - 1
        /\ unvisited = <<>>

\* The handler at work leaves the request's list as it is (see C7).
C7_Step == rpc \in {"start", "loop"} => locations' = locations

\* C7: every accepted request (two locations or more) is answered with a
\* path that is a permutation of the request's locations, duplicates kept,
\* that starts with the first of them and in which every later element is,
\* among the elements from it on (the ones unvisited at that point), one
\* nearest to its predecessor; one log line is written per pick, and
\* len(locations) - 1 picks are made; the request's list is never changed.
C7_NearestNeighbourPath == []C7_Answer /\ [][C7_Step]_vars

\* C7's case: four locations, a duplicate among them, answered in an order
\* other than the one supplied.
C7_Witness ==
    /\ rpc = "responded" /\ status = 200
    /\ Len(locations) = 4 /\ path # locations
    /\ \E i, j \in 1..4 : i # j /\ locations[i] = locations[j]

\* C8 as stated: every accepted request's statistics have baseline = 1.45 x
\* optimized, percent = (1 - 1/1.45) x 100 = 900/29 and optimized < baseline.
C8_FixedRatio ==
    (rpc = "responded" /\ status = 200) =>
        /\ stats.baseline = FracMul(Frac(145, 100), stats.optimized)
        /\ stats.percent = Frac(900, 29)
        /\ FracLess(stats.optimized, stats.baseline)

\* C8 as amended: it is so whenever the path's total distance is positive;
\* when all locations coincide the distance is 0 and optimized, baseline,
\* saved and percent are all 0.
C8_FixedRatioUnlessZero ==
    (rpc = "responded" /\ status = 200) =>
        IF \E i \in 2..Len(locations) : locations[i] # locations[1]
        THEN /\ FracLess(Frac(0, 1), stats.total_distance_km)
             /\ stats.baseline = FracMul(Frac(145, 100), stats.optimized)
             /\ stats.percent = Frac(900, 29)
             /\ FracLess(stats.optimized, stats.baseline)
        ELSE /\ stats.total_distance_km = Frac(0, 1)
             /\ stats.optimized = Frac(0, 1) /\ stats.baseline = Frac(0, 1)
             /\ stats.saved = Frac(0, 1) /\ stats.percent = Frac(0, 1)

\* C8's case: a request of three distinct locations, answered.
C8_Witness ==
    /\ rpc = "responded" /\ status = 200
    /\ Len(locations) = 3 /\ Cardinality({locations[i] : i \in 1..3}) = 3
    /\ stats.percent = Frac(900, 29)

-----------------------------------------------------------------------------
(* SpecManual: the /calculate-manual handler of backend/optimizer.py *)

ManualInit == LoopIdle /\ RouteIdle /\ ManualIdle

ManualNext ==
    \/ ManualRequest
    \/ ManualHandle
    \/ ManualReturn

SpecManual == ManualInit /\ [][ManualNext]_vars

\* C9: whatever the numeric fields are - missing, null or malformed - the
\* request is answered normally, with the three results.
C9_NeverRejected ==
    manual # None =>
        /\ manual.status = 200
        /\ DOMAIN manual = {"status", "emission_kg", "baseline_kg", "savings_kg"}

\* What the request gives for a numeric field, as numerator and denominator:
\* the number supplied (as a number or a numeral), 0 when the field is missing.
C10_Given(body, k) ==
    LET x == IF body = Null THEN Missing ELSE body[k]
    IN  IF x.t = "num" THEN <<x.v, 1>>
        ELSE IF x = Str("12") THEN <<12, 1>>
        ELSE IF x = Str("2.5") THEN <<5, 2>>
        ELSE <<0, 1>>

\* The factor of the request's mode, in thousandths.
C10_Thousandths(body) ==
    LET x == IF body = Null THEN Missing ELSE body.mode
    IN  IF x = Str("rail") THEN 20 ELSE IF x = Str("air") THEN 500 ELSE 80

\* C10: a request that is answered is answered with
\* emission_kg = distance x weight/1000 x factor[mode] (road 0.080, rail
\* 0.020, air 0.500, road for any other mode), baseline_kg = distance x
\* weight/1000 x 0.500, and savings_kg = max(0, baseline_kg - emission_kg),
\* which is not negative.
C10_Formula ==
    (manual # None /\ manual.status = 200) =>
        LET d == C10_Given(payload, "distance")
            w == C10_Given(payload, "weight")
            den == d[2] * w[2] * 1000000
            e == d[1] * w[1] * C10_Thousandths(payload)
            b == d[1] * w[1] * 500
        IN  /\ manual.emission_kg = Frac(e, den)
            /\ manual.baseline_kg = Frac(b, den)
            /\ manual.savings_kg = Frac(IF b - e > 0 THEN b - e ELSE 0, den)
            /\ manual.savings_kg[1] >= 0

\* C10's case: the spec's example, 100 km, 1000 kg by rail: 2.0, 50.0, 48.0.
C10_Witness ==
    /\ payload = [distance |-> Num(100), weight |-> Num(1000), mode |-> Str("rail")]
    /\ manual # None /\ manual.status = 200
    /\ manual.emission_kg = <<2, 1>> /\ manual.baseline_kg = <<50, 1>> /\ manual.savings_kg = <<48, 1>>

\* C10's other case: an unknown mode, a numeral string and a negative distance.
C10_WitnessUnknown ==
    /\ payload = [distance |-> Num(-5), weight |-> Str("2.5"), mode |-> Str("unknown")]
    /\ manual # None /\ manual.status = 200
    /\ manual.savings_kg = <<0, 1>>

====
